---- MODULE Spec2Model ----
(***************************************************************************)
(* Model of gymnax/rollouts/base_rollouts.py: the BaseRollouts orchestrator *)
(* (init_collector, actor_learner_step, lax_rollout, vmap_rollout,          *)
(* episode_rollout, batch_rollout) together with the jit / vmap / scan      *)
(* behaviour its decorators and calls rely on.                              *)
(*                                                                          *)
(* One BaseRollouts object is modelled.  Its hooks are the overrides of a   *)
(* concrete subclass, picked at construction from a small family (impl).    *)
(* A call of a public method is one action; the record `last` holds what    *)
(* the caller of the most recent call observed, and, as a ghost, what every *)
(* actor-learner step of that call received and produced.                   *)
(***************************************************************************)
EXTENDS Integers, Sequences, FiniteSets, TLC

\* ------------------------------------------------------------------ bounds
MaxSteps == 3        \* largest max_steps_in_episode a constructor is given
MaxBatch == 2        \* size of the batches of several root keys
Modulus == 3         \* size of the value domain of the example hooks

VARIABLES
    impl,                   \* the subclass: which hook overrides are in use
    env_params,             \* self.env_params
    max_steps_in_episode,   \* self.max_steps_in_episode
    agent_params,           \* self.agent_params   (<<>> = attribute missing)
    learner_state,          \* self.learner_state  (<<>> = attribute missing)
    actor_state,            \* self.actor_state    (<<>> = attribute missing)
    lax_cache,              \* jit cache of lax_rollout: TRUE once compiled
    vmap_cache,             \* jit cache of vmap_rollout, per cache key
    last,                   \* outcome of the most recent call
    rem                     \* one remembered earlier episode_rollout call

vars == <<impl, env_params, max_steps_in_episode, agent_params, learner_state,
          actor_state, lax_cache, vmap_cache, last, rem>>

\* ------------------------------------------------------------ value domains
\* Two root keys and two agent-parameter values: enough to tell one episode,
\* and one init_collector, from another.
RootKeys == {<<0>>, <<1>>}
\* Key batches: of a single key, and of MaxBatch keys (repeats allowed).
BatchSizes == {1, MaxBatch}
KeyBatches == UNION {[1..n -> RootKeys] : n \in BatchSizes}
AgentParams == {0, 1}
EnvParams == [max_steps_in_episode : 1..MaxSteps, bias : {1}]

Hooks == {"reset", "step", "action_selection", "prepare_experience",
          "store_experience", "update_learner", "init_learner_state",
          "init_actor_state"}
AbstractHooks == Hooks \ {"reset", "step"}

\* The subclasses considered.  raises[h] is the error type hook h raises
\* ("" = the hook returns normally); cond = TRUE makes the two initializer
\* hooks raise only for agent params 0 (they run eagerly and see values).
NoRaise == [h \in Hooks |-> ""]
InitHooks == {"init_learner_state", "init_actor_state"}
Working == {[env |-> "mod", learner_identity |-> FALSE, raises |-> NoRaise,
             cond |-> FALSE],
            [env |-> "mod", learner_identity |-> TRUE, raises |-> NoRaise,
             cond |-> FALSE],
            [env |-> "const", learner_identity |-> TRUE, raises |-> NoRaise,
             cond |-> FALSE]}
Failing == {[env |-> "mod", learner_identity |-> FALSE,
             raises |-> [NoRaise EXCEPT ![h] = e], cond |-> TRUE] :
               h \in Hooks \ InitHooks, e \in {"AttributeError", "ValueError"}}
           \cup
           {[env |-> "mod", learner_identity |-> FALSE,
             raises |-> [NoRaise EXCEPT ![h] = "ValueError"], cond |-> TRUE] :
               h \in InitHooks}
\* BaseRollouts itself: no abstract hook is overridden.
Base == [env |-> "mod", learner_identity |-> FALSE,
         raises |-> [h \in Hooks |-> IF h \in AbstractHooks
                                      THEN "NotImplementedError" ELSE ""],
         cond |-> FALSE]
Impls == Working \cup Failing \cup {Base}

\* The constructions considered: every working subclass with every episode
\* length, the failing ones (whose errors do not depend on it) with one.
Setups == (Working \X EnvParams)
          \cup ((Failing \cup {Base}) \X {[max_steps_in_episode |-> 1, bias |-> 1]})

\* ------------------------------------------------------------------ arrays
\* An array is its shape and its elements in row-major order.
Scalar(v) == [shape |-> <<>>, data |-> <<v>>]
Val(a) == a.data[1]
EmptyArray == [shape |-> <<0>>, data |-> <<>>]

NotOne(d) == d # 1
\* ndarray.squeeze(): every axis of length 1 is removed.
Squeeze(a) == [shape |-> SelectSeq(a.shape, NotOne), data |-> a.data]

\* jnp.array([a]): a new leading axis of length 1.
ArrayOfList(a) == [shape |-> <<1>> \o a.shape, data |-> a.data]

RECURSIVE Concat(_)
Concat(ss) == IF ss = <<>> THEN <<>> ELSE Head(ss) \o Concat(Tail(ss))

RECURSIVE DataOf(_)
DataOf(as) == IF as = <<>> THEN <<>> ELSE <<Head(as).data>> \o DataOf(Tail(as))

\* Stacking along a new axis 0 (the out_axes = 0 of vmap).
Stack(as) == [shape |-> <<Len(as)>> \o (IF as = <<>> THEN <<>> ELSE as[1].shape),
              data |-> Concat(DataOf(as))]

\* len(a) is defined for arrays of at least one axis only.
HasLen(a) == Len(a.shape) >= 1
ArrLen(a) == a.shape[1]
\* a[i] for i = 0 .. len(a) - 1.
RowSize(a) == Len(a.data) \div a.shape[1]
Row(a, i) == [shape |-> Tail(a.shape),
              data |-> SubSeq(a.data, i * RowSize(a) + 1, (i + 1) * RowSize(a))]

\* ---------------------------------------------------------------- PRNG keys
\* A key is the path by which it was split off a root key.
split(rng, num) == [i \in 1..num |-> Append(rng, i - 1)]

RECURSIVE KeySum(_)
KeySum(key) == IF key = <<>> THEN 0 ELSE Head(key) + 1 + KeySum(Tail(key))
\* The number a hook draws from a key.
Draw(key) == KeySum(key) % Modulus

\* --------------------------------------------------- hooks of the subclass
reset(key, envp) ==
    [obs |-> Scalar(Draw(key)), state |-> Scalar((Draw(key) + envp.bias) % Modulus)]

step(key, envp, state, action) ==
    IF impl.env = "const"
    THEN [next_obs |-> Scalar(0), next_state |-> state, reward |-> 1,
          done |-> FALSE, info |-> <<>>]
    ELSE LET ns == (Val(state) + action + 1) % Modulus IN
         [next_obs |-> Scalar((ns + Draw(key)) % Modulus),
          next_state |-> Scalar(ns),
          reward |-> (Val(state) + action + envp.bias + Draw(key)) % Modulus,
          done |-> (ns = 0), info |-> <<>>]

action_selection(key, obs, params, astate) ==
    [action |-> (Val(obs) + params + astate + Draw(key)) % Modulus,
     actor_state |-> (astate + 1) % Modulus]

prepare_experience(env_output, astate) ==
    [env_output |-> env_output, actor_state |-> astate]

update_learner(params, lstate) ==
    IF impl.learner_identity
    THEN [agent_params |-> params, learner_state |-> lstate]
    ELSE [agent_params |-> (params + lstate) % Modulus,
          learner_state |-> (lstate + 1) % Modulus]

init_learner_state(params) == (params + 1) % Modulus

init_actor_state == 0

\* Does hook h raise when init_collector runs it for agent params p?
InitRaises_for_zero(h, p) == impl.raises[h] # "" /\ p = 0
InitRaises(h, p) == impl.raises[h] # "" /\ (impl.cond => p = 0)

\* --------------------------------------------------------------- the step
perform_transition(key, envp, state, action) == step(key, envp, state, action)

\* rng, key_act, key_step = jax.random.split(rng, 3)
step_keys_reused(rng) ==
    LET s == split(rng, 3) IN [rng |-> s[1], key_act |-> s[2], key_step |-> s[2]]
step_keys(rng) ==
    LET s == split(rng, 3) IN [rng |-> s[1], key_act |-> s[2], key_step |-> s[3]]

\* The carry handed to the next step (step 6 of actor_learner_step).
next_carry_swapped(rng, next_obs, next_state, envp, params, astate, lstate) ==
    <<rng, Squeeze(next_obs), Squeeze(next_state), envp, lstate, astate, params>>
next_carry_actor_writes(rng, next_obs, next_state, envp, params, astate, lstate) ==
    <<rng, Squeeze(next_obs), Squeeze(next_state), envp, astate, astate, lstate>>
next_carry_new_env(rng, next_obs, next_state, envp, params, astate, lstate) ==
    <<rng, Squeeze(next_obs), Squeeze(next_state), [envp EXCEPT !.bias = 0],
      params, astate, lstate>>
next_carry(rng, next_obs, next_state, envp, params, astate, lstate) ==
    <<rng, Squeeze(next_obs), Squeeze(next_state), envp, params, astate, lstate>>

\* One traced application of the scan body.  carry and y are what the code
\* returns; the other fields record what each hook was given.
actor_learner_step(carry_input) ==
    LET rng0 == carry_input[1]
        obs == carry_input[2]
        state == carry_input[3]
        envp == carry_input[4]
        params == carry_input[5]
        astate0 == carry_input[6]
        lstate == carry_input[7]
        ks == step_keys(rng0)
        sel == action_selection(ks.key_act, obs, params, astate0)
        astate == sel.actor_state
        tr == perform_transition(ks.key_step, envp, state, sel.action)
        env_output == <<state, tr.next_state, obs, tr.next_obs, sel.action,
                        tr.reward, tr.done>>
        step_experience == prepare_experience(env_output, astate)
        upd == update_learner(params, lstate)
    IN [carry |-> next_carry(ks.rng, tr.next_obs, tr.next_state, envp,
                             upd.agent_params, astate, upd.learner_state),
        y |-> tr.reward,
        carry_in |-> carry_input,
        rng_in |-> rng0, key_act |-> ks.key_act, key_step |-> ks.key_step,
        sel_params |-> params, sel_actor |-> astate0,
        step_env |-> envp, step_reward |-> tr.reward, done |-> tr.done,
        exp_actor |-> astate, stored |-> step_experience,
        upd_params |-> params, upd_learner |-> lstate]

\* lax.scan(actor_learner_step, init, [zeros(n)]): the step records, in order.
RECURSIVE scan_restart_on_done(_, _)
scan_restart_on_done(init, n) ==
    IF n = 0 THEN <<>>
    ELSE LET s == actor_learner_step(init)
         IN <<s>> \o scan_restart_on_done(IF s.done THEN init ELSE s.carry, n - 1)
RECURSIVE scan(_, _)
scan(init, n) ==
    IF n = 0 THEN <<>>
    ELSE LET s == actor_learner_step(init) IN <<s>> \o scan(s.carry, n - 1)

\* The (T,) array scan stacks from the per-step outputs [reward].
RECURSIVE ys_data(_)
ys_data(steps) ==
    IF steps = <<>> THEN <<>> ELSE <<Head(steps).y>> \o ys_data(Tail(steps))
ys_of(steps) == [shape |-> <<Len(steps)>>, data |-> ys_data(steps)]

\* What lax_rollout makes of the stacked outputs: jnp.array(scan_out2).squeeze()
rewards_of(steps) == Squeeze(ArrayOfList(ys_of(steps)))

lax_rollout(key_input, envp, max_steps, params, astate, lstate) ==
    LET r == reset(key_input, envp)
        init == <<key_input, r.obs, r.state, envp, params, astate, lstate>>
        steps == scan(init, max_steps)
    IN [start |-> init,
        steps |-> steps,
        carry |-> IF max_steps = 0 THEN init ELSE steps[max_steps].carry,
        rewards |-> rewards_of(steps)]

\* ------------------------------------------------------------------ errors
HintEpisode == ". You need to initialize the agent's parameters and the states of the actor and learner."
HintBatch == ". You need to initialize the agent params and actor/learner states."

NoErr == [type |-> "", msg |-> <<>>]
\* The text of the error of a failed lookup self.<name>.
MissingAttr(name) ==
    [type |-> "AttributeError", msg |-> <<"object has no attribute", name>>]
\* The error a raising hook raises.
HookError(h) == [type |-> impl.raises[h], msg |-> <<"raised in", h>>]

\* except AttributeError as err: raise AttributeError(f"{err}<hint>")
reraise_bare(err, hint) ==
    IF err.type = "AttributeError"
    THEN [type |-> "AttributeError", msg |-> <<hint>>]
    ELSE err
reraise(err, hint) ==
    IF err.type = "AttributeError"
    THEN [type |-> "AttributeError", msg |-> Append(err.msg, hint)]
    ELSE err

\* The first of self.agent_params, self.actor_state, self.learner_state (the
\* order in which the rollout methods read them) that is missing, or "".
FirstMissing ==
    IF agent_params = <<>> THEN "agent_params"
    ELSE IF actor_state = <<>> THEN "actor_state"
    ELSE IF learner_state = <<>> THEN "learner_state"
    ELSE ""

\* ------------------------------------------------------------- jit tracing
\* The hooks run as Python code when jit traces lax_rollout: reset, then the
\* scan body once.  A hook that raises ends the trace there.
TraceOrder == <<"reset", "action_selection", "step", "prepare_experience",
                "store_experience", "update_learner">>

trace_lax ==
    LET bad == {i \in 1..Len(TraceOrder) : impl.raises[TraceOrder[i]] # ""}
        f == IF bad = {} THEN 0 ELSE CHOOSE i \in bad : \A j \in bad : i <= j
    IN [pycalls |-> IF f = 0 THEN TraceOrder ELSE SubSeq(TraceOrder, 1, f),
        err |-> IF f = 0 THEN NoErr ELSE HookError(TraceOrder[f])]

NoTrace == [pycalls |-> <<>>, err |-> NoErr]

\* store_experience returns nothing, so all it does is its Python side
\* effect: it runs when the scan body is traced, once, and is handed the
\* traced record, which has no values.  A compiled rollout does not call it.
IsStore(h) == h = "store_experience"
Tracer == "Traced<step_experience>"
BufferWrites(pycalls) ==
    [k \in 1..Len(SelectSeq(pycalls, IsStore)) |-> Tracer]

\* jit cache keys of vmap_rollout: the batch size (shape of the key array)
\* and the static argument max_steps_in_episode.
CacheKeys == BatchSizes \X (1..MaxSteps)

\* ------------------------------------------------------- what a call leaves
Pre == [agent_params |-> agent_params, actor_state |-> actor_state,
        learner_state |-> learner_state]

Outcome(op, keys, args, err, pycalls, lanes, rewards, remhit) ==
    [op |-> op, keys |-> keys, args |-> args, pre |-> Pre, err |-> err,
     pycalls |-> pycalls, lanes |-> lanes, rewards |-> rewards,
     remhit |-> remhit]

Args(envp, max_steps, params, astate, lstate) ==
    [env_params |-> envp, max_steps |-> max_steps, agent_params |-> params,
     actor_state |-> astate, learner_state |-> lstate]

\* --------------------------------------------------------- init_collector
init_collector(p) ==
    /\ agent_params' = <<p>>
    /\ IF InitRaises("init_learner_state", p)
       THEN /\ UNCHANGED <<learner_state, actor_state>>
            /\ last' = Outcome("init_collector", <<>>, <<p>>,
                               HookError("init_learner_state"),
                               <<"init_learner_state">>, <<>>, EmptyArray, FALSE)
       ELSE /\ learner_state' = <<init_learner_state(p)>>
            /\ IF InitRaises("init_actor_state", p)
               THEN /\ UNCHANGED actor_state
                    /\ last' = Outcome("init_collector", <<>>, <<p>>,
                                       HookError("init_actor_state"),
                                       <<"init_learner_state", "init_actor_state">>,
                                       <<>>, EmptyArray, FALSE)
               ELSE /\ actor_state' = <<init_actor_state>>
                    /\ last' = Outcome("init_collector", <<>>, <<p>>, NoErr,
                                       <<"init_learner_state", "init_actor_state">>,
                                       <<>>, EmptyArray, FALSE)
    /\ UNCHANGED <<impl, env_params, max_steps_in_episode, lax_cache,
                   vmap_cache, rem>>

\* -------------------------------------------------------- episode_rollout
\* The arguments episode_rollout hands to lax_rollout.
episode_args_stale ==
    IF \E ck \in CacheKeys : vmap_cache[ck] # <<>>
    THEN vmap_cache[CHOOSE ck \in CacheKeys : vmap_cache[ck] # <<>>][1]
    ELSE Args(env_params, max_steps_in_episode, agent_params[1],
              actor_state[1], learner_state[1])
episode_args ==
    Args(env_params, max_steps_in_episode, agent_params[1], actor_state[1],
         learner_state[1])

episode_rollout(key_rollout) ==
    /\ LET miss == FirstMissing
           tr == IF lax_cache THEN NoTrace ELSE trace_lax
           a == episode_args
           hit == /\ rem # <<>>
                  /\ rem[1].key = key_rollout
                  /\ rem[1].pre = Pre
       IN IF miss # ""
          THEN /\ last' = Outcome("episode_rollout", <<key_rollout>>, <<>>,
                                  reraise(MissingAttr(miss), HintEpisode),
                                  <<>>, <<>>, EmptyArray, FALSE)
               /\ UNCHANGED <<lax_cache, rem>>
          ELSE IF tr.err # NoErr
          THEN /\ last' = Outcome("episode_rollout", <<key_rollout>>, <<a>>,
                                  reraise(tr.err, HintEpisode),
                                  tr.pycalls, <<>>, EmptyArray, hit)
               /\ UNCHANGED <<lax_cache, rem>>
          ELSE \E out \in {lax_rollout(key_rollout, a.env_params, a.max_steps,
                                        a.agent_params, a.actor_state,
                                        a.learner_state)} :
               /\ last' = Outcome("episode_rollout", <<key_rollout>>, <<a>>,
                                  NoErr, tr.pycalls, <<out>>, out.rewards, hit)
               /\ lax_cache' = TRUE
               /\ UNCHANGED rem
    /\ UNCHANGED <<impl, env_params, max_steps_in_episode, agent_params,
                   learner_state, actor_state, vmap_cache>>

\* An observer keeps the episode_rollout call that has just returned, to
\* compare later calls with it.
remember ==
    /\ last.op = "episode_rollout"
    /\ last.err = NoErr
    /\ ~last.remhit
    /\ rem' = <<[key |-> last.keys[1], pre |-> last.pre,
                 rewards |-> last.rewards, carry |-> last.lanes[1].carry]>>
    /\ rem' # rem
    /\ UNCHANGED <<impl, env_params, max_steps_in_episode, agent_params,
                   learner_state, actor_state, lax_cache, vmap_cache, last>>

\* ----------------------------------------------------------- vmap_rollout
\* The values the body of vmap_rollout reads when it is traced.
vmap_closure ==
    Args(env_params, max_steps_in_episode, agent_params[1], actor_state[1],
         learner_state[1])

\* vmap(self.lax_rollout, in_axes=(0, None, None, None, None, None))
RECURSIVE rollout_map(_, _, _, _, _, _)
rollout_map(key_input, envp, max_steps, params, astate, lstate) ==
    IF key_input = <<>> THEN <<>>
    ELSE <<lax_rollout(Head(key_input), envp, max_steps, params, astate, lstate)>>
         \o rollout_map(Tail(key_input), envp, max_steps, params, astate, lstate)

RECURSIVE RewardsOf(_)
RewardsOf(lanes) ==
    IF lanes = <<>> THEN <<>> ELSE <<Head(lanes).rewards>> \o RewardsOf(Tail(lanes))

\* A call of the jitted vmap_rollout: on a cache hit the compiled rollout
\* runs with the values it closed over when traced; on a miss the body is
\* traced (and the hooks run) with the current attributes.
vmap_rollout(key_input, envp, max_steps, params, astate, lstate) ==
    LET ck == <<Len(key_input), max_steps>>
        hit == vmap_cache[ck] # <<>>
        miss == FirstMissing
        tr == trace_lax
        c == IF hit THEN vmap_cache[ck][1] ELSE vmap_closure
        lanes == rollout_map(key_input, c.env_params, c.max_steps,
                             c.agent_params, c.actor_state, c.learner_state)
    IN IF ~hit /\ miss # ""
       THEN [err |-> MissingAttr(miss), pycalls |-> <<>>, lanes |-> <<>>,
             rewards |-> EmptyArray, cache |-> vmap_cache]
       ELSE IF ~hit /\ tr.err # NoErr
       THEN [err |-> tr.err, pycalls |-> tr.pycalls, lanes |-> <<>>,
             rewards |-> EmptyArray, cache |-> vmap_cache]
       ELSE [err |-> NoErr, pycalls |-> IF hit THEN <<>> ELSE tr.pycalls,
             lanes |-> lanes,
             rewards |-> Stack(RewardsOf(lanes)),
             cache |-> [vmap_cache EXCEPT ![ck] = <<c>>]]

\* ---------------------------------------------------------- batch_rollout
batch_rollout(key_rollout) ==
    /\ LET miss == FirstMissing
           a == Args(env_params, max_steps_in_episode, agent_params[1],
                     actor_state[1], learner_state[1])
       IN IF miss # ""
          THEN /\ last' = Outcome("batch_rollout", key_rollout, <<>>,
                                  reraise(MissingAttr(miss), HintBatch),
                                  <<>>, <<>>, EmptyArray, FALSE)
               /\ UNCHANGED vmap_cache
          ELSE \E r \in {vmap_rollout(key_rollout, a.env_params, a.max_steps,
                                      a.agent_params, a.actor_state,
                                      a.learner_state)} :
               /\ last' = Outcome("batch_rollout", key_rollout, <<a>>,
                                  reraise(r.err, HintBatch), r.pycalls,
                                  r.lanes, r.rewards, FALSE)
               /\ vmap_cache' = r.cache
    /\ UNCHANGED <<impl, env_params, max_steps_in_episode, agent_params,
                   learner_state, actor_state, lax_cache, rem>>

\* A caller using vmap_rollout itself, with a consistent set of arguments
\* of its own: the env params the object was built with, agent params and
\* the states initialized for them.
call_vmap_rollout(key_input, envp, params) ==
    /\ LET a == Args(envp, envp.max_steps_in_episode, params,
                     init_actor_state, init_learner_state(params))
       IN \E r \in {vmap_rollout(key_input, a.env_params, a.max_steps,
                                 a.agent_params, a.actor_state,
                                 a.learner_state)} :
          /\ last' = Outcome("vmap_rollout", key_input, <<a>>, r.err,
                             r.pycalls, r.lanes, r.rewards, FALSE)
          /\ vmap_cache' = r.cache
    /\ UNCHANGED <<impl, env_params, max_steps_in_episode, agent_params,
                   learner_state, actor_state, lax_cache, rem>>

\* A caller invoking one of the six overridable hooks itself, with agent
\* params p among its arguments.
call_hook(h, p) ==
    /\ LET raised == IF h \in InitHooks THEN InitRaises(h, p)
                     ELSE impl.raises[h] # ""
       IN last' = Outcome("hook", <<>>, <<p>>,
                          IF raised THEN HookError(h) ELSE NoErr,
                          <<h>>, <<>>, EmptyArray, FALSE)
    /\ UNCHANGED <<impl, env_params, max_steps_in_episode, agent_params,
                   learner_state, actor_state, lax_cache, vmap_cache, rem>>

\* ------------------------------------------------------------ the machine
\* After __init__(step, reset, env_params): no collector state yet.
Init ==
    /\ \E su \in Setups : impl = su[1] /\ env_params = su[2]
    /\ max_steps_in_episode = env_params.max_steps_in_episode
    /\ agent_params = <<>>
    /\ learner_state = <<>>
    /\ actor_state = <<>>
    /\ lax_cache = FALSE
    /\ vmap_cache = [ck \in CacheKeys |-> <<>>]
    /\ last = Outcome("none", <<>>, <<>>, NoErr, <<>>, <<>>, EmptyArray, FALSE)
    /\ rem = <<>>

Next ==
    \/ \E p \in AgentParams : init_collector(p)
    \/ \E k \in RootKeys : episode_rollout(k)
    \/ \E ks \in KeyBatches : batch_rollout(ks)
    \/ remember

\* The object used through init_collector and its two rollout entry points,
\* with an observer that remembers one earlier episode_rollout call.
Spec == Init /\ [][Next]_vars

\* The object with callers that also use vmap_rollout and the hooks
\* themselves.
NextDirect ==
    \/ \E p \in AgentParams : init_collector(p)
    \/ \E ks \in KeyBatches : batch_rollout(ks)
    \/ \E ks \in KeyBatches, p \in AgentParams :
           call_vmap_rollout(ks, env_params, p)
    \/ \E h \in AbstractHooks, p \in AgentParams : call_hook(h, p)

SpecDirect == Init /\ [][NextDirect]_vars

\* ------------------------------------------------------------ properties
RolloutOk ==
    /\ last.op \in {"episode_rollout", "batch_rollout", "vmap_rollout"}
    /\ last.err = NoErr

EntryOk ==
    /\ last.op \in {"episode_rollout", "batch_rollout"}
    /\ last.err = NoErr

\* C1: row i of the rewards and of the final carries returned by
\* batch_rollout(keys) equals what episode_rollout(keys[i]) returned when
\* run alone with the same stored agent params, actor state and learner
\* state, whatever the other keys and the batch size.
C1_BatchRowEqualsEpisode ==
    (/\ last.op = "batch_rollout"
     /\ last.err = NoErr
     /\ rem # <<>>
     /\ rem[1].pre = last.pre)
    => \A i \in 1..Len(last.keys) :
          last.keys[i] = rem[1].key
          => /\ Row(last.rewards, i - 1) = rem[1].rewards
             /\ last.lanes[i].carry = rem[1].carry

\* C2: the reward sequence episode_rollout returns has a length, and it is
\* exactly max_steps_in_episode, for every positive max_steps_in_episode.
C2_RewardLength ==
    (last.op = "episode_rollout" /\ last.err = NoErr)
    => /\ HasLen(last.rewards)
       /\ ArrLen(last.rewards) = max_steps_in_episode

\* C3: element t of the reward sequence episode_rollout returns is the reward
\* the environment step returned in the t-th actor-learner step, for every
\* t in 0 .. max_steps_in_episode - 1.
C3_RewardsChronological ==
    (last.op = "episode_rollout" /\ last.err = NoErr)
    => \A t \in 0..(max_steps_in_episode - 1) :
          /\ HasLen(last.rewards)
          /\ t < ArrLen(last.rewards)
          /\ Row(last.rewards, t) = Scalar(last.lanes[1].steps[t + 1].step_reward)

\* C4: an episode_rollout call made with the root key and the stored agent
\* params, actor state and learner state of a remembered earlier call
\* succeeds and returns the same reward sequence as that call, whatever was
\* called in between.
C4_EpisodeDeterministic ==
    (last.op = "episode_rollout" /\ last.remhit)
    => /\ last.err = NoErr
       /\ last.rewards = rem[1].rewards

C4_Witness ==
    /\ last.op = "episode_rollout"
    /\ last.remhit
    /\ last.err = NoErr
    /\ max_steps_in_episode >= 2
    /\ \E ck \in CacheKeys : vmap_cache[ck] # <<>>
    /\ \E t \in 1..(max_steps_in_episode - 1) :
          last.lanes[1].steps[t].y # last.lanes[1].steps[t + 1].y

\* C5: episode_rollout or batch_rollout called before init_collector was ever
\* called raises an AttributeError whose message is the text of the missing
\* attribute error followed by the initialization hint, and no hook (reset,
\* step or other) has run.
C5_UninitializedError ==
    (/\ last.op \in {"episode_rollout", "batch_rollout"}
     /\ last.pre.agent_params = <<>>)
    => /\ last.err.type = "AttributeError"
       /\ last.err.msg =
             Append(MissingAttr("agent_params").msg,
                    IF last.op = "episode_rollout" THEN HintEpisode ELSE HintBatch)
       /\ last.pycalls = <<>>
       /\ last.lanes = <<>>

C5_Witness ==
    /\ last.op = "batch_rollout"
    /\ last.pre.agent_params = <<>>
    /\ last.err.type = "AttributeError"
    /\ Len(last.keys) = MaxBatch

\* C6: an error a hook raises during a rollout that was started with all of
\* agent params, actor state and learner state stored reaches the caller of
\* episode_rollout / batch_rollout as the hook raised it, whatever its type.
C6_OtherErrorsUnmodified ==
    (/\ last.op \in {"episode_rollout", "batch_rollout"}
     /\ last.args # <<>>
     /\ last.err # NoErr)
    => last.err = HookError(last.pycalls[Len(last.pycalls)])

\* C7: with an identity update_learner, the agent params every
\* action_selection of an episode is given, and those of the final carry,
\* are the agent params the episode was started with.
C7_IdentityLearnerKeepsParams ==
    (RolloutOk /\ impl.learner_identity)
    => \A i \in 1..Len(last.lanes) :
          /\ last.lanes[i].carry[5] = last.lanes[i].start[5]
          /\ \A t \in 1..Len(last.lanes[i].steps) :
                last.lanes[i].steps[t].sel_params = last.lanes[i].start[5]

C7_Witness ==
    /\ RolloutOk
    /\ impl.learner_identity
    /\ \E i \in 1..Len(last.lanes) :
          /\ Len(last.lanes[i].steps) >= 2
          /\ \E t, u \in 1..Len(last.lanes[i].steps) :
                /\ last.lanes[i].steps[t].y # last.lanes[i].steps[u].y
                /\ last.lanes[i].steps[t].done
                /\ ~last.lanes[i].steps[u].done

\* C8: vmap_rollout runs the single-episode rollout for every key with the
\* env params, episode length, agent params, actor state and learner state
\* it was given as arguments.
C8_VmapUsesGivenInputs ==
    (last.op = "vmap_rollout" /\ last.err = NoErr)
    => last.lanes = rollout_map(last.keys, last.args[1].env_params,
                                last.args[1].max_steps,
                                last.args[1].agent_params,
                                last.args[1].actor_state,
                                last.args[1].learner_state)

\* C9: after init_collector(p) returned, the object stores p,
\* init_learner_state(p) and init_actor_state(), each initializer having run
\* once; and every episode of an episode_rollout / batch_rollout starts from
\* the three values stored when it is called.
C9_InitThenRolloutFromStored ==
    /\ (last.op = "init_collector" /\ last.err = NoErr)
       => /\ agent_params = last.args
          /\ learner_state = <<init_learner_state(last.args[1])>>
          /\ actor_state = <<init_actor_state>>
          /\ last.pycalls = <<"init_learner_state", "init_actor_state">>
    /\ EntryOk
       => \A i \in 1..Len(last.lanes) :
             /\ last.lanes[i].start[5] = last.pre.agent_params[1]
             /\ last.lanes[i].start[6] = last.pre.actor_state[1]
             /\ last.lanes[i].start[7] = last.pre.learner_state[1]

\* The step records of the last call, over all its episodes.
LastSteps ==
    {last.lanes[i].steps[t] :
        i \in 1..Len(last.lanes), t \in 1..max_steps_in_episode}

\* C10: in every actor-learner step the key kept in the carry, the key given
\* to action_selection and the key given to the environment step differ
\* from each other and from the key the step received, and two steps that
\* receive the same key derive the same three keys.
C10_StepKeysDistinct ==
    RolloutOk
    => \A s \in LastSteps :
          /\ Cardinality({s.rng_in, s.carry[1], s.key_act, s.key_step}) = 4
          /\ \A u \in LastSteps :
                u.rng_in = s.rng_in
                => /\ u.carry[1] = s.carry[1]
                   /\ u.key_act = s.key_act
                   /\ u.key_step = s.key_step

C10_Witness ==
    /\ last.op = "batch_rollout"
    /\ last.err = NoErr
    /\ Len(last.keys) = MaxBatch
    /\ last.keys[1] = last.keys[2]
    /\ max_steps_in_episode >= 2

\* C11: on the class that overrides no hook, a call of any of the six
\* abstract hooks raises NotImplementedError whatever its arguments, and
\* init_collector ends with that error for every agent params value, having
\* stored neither a learner state nor an actor state.
C11_AbstractHooksRaise ==
    impl = Base
    => /\ last.op = "hook" => last.err.type = "NotImplementedError"
       /\ last.op = "init_collector"
          => /\ last.err.type = "NotImplementedError"
             /\ last.pycalls = <<"init_learner_state">>
       /\ learner_state = <<>>
       /\ actor_state = <<>>

C11_Witness ==
    /\ impl = Base
    /\ last.op = "init_collector"
    /\ last.args = <<1>>
    /\ last.err.type = "NotImplementedError"
    /\ agent_params = <<1>>

\* C12: an episode of episode_rollout writes exactly one record per
\* actor-learner step to the buffer, the k-th write being a record with the
\* values of the k-th transition (not a value-less traced one), and in each
\* step the hooks run in the order action_selection, step,
\* prepare_experience, store_experience, update_learner.
C12_StoreOncePerStep ==
    (last.op = "episode_rollout" /\ last.err = NoErr)
    => /\ Len(BufferWrites(last.pycalls)) = max_steps_in_episode
       /\ \A k \in 1..Len(BufferWrites(last.pycalls)) :
             /\ k <= Len(last.lanes[1].steps)
             /\ BufferWrites(last.pycalls)[k] # Tracer
       /\ last.pycalls # <<>>
          => SubSeq(last.pycalls, 2, Len(last.pycalls))
                = <<"action_selection", "step", "prepare_experience",
                    "store_experience", "update_learner">>

\* C13: in every actor-learner step prepare_experience is given the state,
\* observation, reward and done flag of that step's transition, and the actor
\* state of the step's incoming carry.
C13_ExperiencePreActorState ==
    RolloutOk
    => \A s \in LastSteps :
          /\ s.stored.env_output[1] = s.carry_in[3]
          /\ s.stored.env_output[3] = s.carry_in[2]
          /\ s.stored.env_output[6] = s.step_reward
          /\ s.stored.env_output[7] = s.done
          /\ s.exp_actor = s.carry_in[6]
          /\ s.stored.actor_state = s.carry_in[6]

\* C14: every episode of a rollout starts from the reset made with its root
\* key, then takes exactly max_steps_in_episode actor-learner steps, the
\* first on the reset carry and each later one on the whole carry the step
\* before it returned, also after a step whose done flag was set; the carry
\* returned is that of the last step.
C14_FixedLengthSequentialSteps ==
    RolloutOk
    => \A i \in 1..Len(last.lanes) :
          LET lane == last.lanes[i]
              r == reset(last.keys[i], lane.start[4])
          IN /\ lane.start[1] = last.keys[i]
             /\ lane.start[2] = r.obs
             /\ lane.start[3] = r.state
             /\ Len(lane.steps) = max_steps_in_episode
             /\ lane.steps[1].carry_in = lane.start
             /\ \A t \in 1..(Len(lane.steps) - 1) :
                   lane.steps[t + 1].carry_in = lane.steps[t].carry
             /\ lane.carry = lane.steps[Len(lane.steps)].carry

C14_Witness ==
    /\ RolloutOk
    /\ max_steps_in_episode = MaxSteps
    /\ \E i \in 1..Len(last.lanes) :
          \E t \in 1..(MaxSteps - 1) :
             /\ last.lanes[i].steps[t].done
             /\ ~last.lanes[i].steps[t + 1].done
             /\ last.lanes[i].steps[t + 1].carry_in[3] # last.lanes[i].start[3]

\* C15: in every episode of a rollout the env params of the reset carry are
\* those the rollout was started with, every step finds them in its incoming
\* carry, hands them to the environment transition and returns them in its
\* outgoing carry.
C15_EnvParamsConstant ==
    RolloutOk
    => \A i \in 1..Len(last.lanes) :
          /\ last.lanes[i].start[4] = last.args[1].env_params
          /\ last.lanes[i].carry[4] = last.args[1].env_params
          /\ \A t \in 1..Len(last.lanes[i].steps) :
                /\ last.lanes[i].steps[t].carry_in[4] = last.args[1].env_params
                /\ last.lanes[i].steps[t].step_env = last.args[1].env_params
                /\ last.lanes[i].steps[t].carry[4] = last.args[1].env_params

C15_Witness ==
    /\ last.op = "batch_rollout"
    /\ last.err = NoErr
    /\ max_steps_in_episode = MaxSteps
    /\ Len(last.lanes) = MaxBatch
    /\ \E i \in 1..Len(last.lanes) :
          \E t \in 1..MaxSteps :
             /\ last.lanes[i].steps[t].carry[5] # last.lanes[i].steps[t].carry_in[5]
             /\ last.lanes[i].steps[t].carry[3] # last.lanes[i].steps[t].carry_in[3]

\* C16: in every episode the first action_selection is given the agent
\* params the episode started with, every later one the agent params
\* update_learner returned in the step before, which are also the ones in
\* that step's outgoing carry; and update_learner is given, in each step, the
\* agent params action_selection was given in that step.
C16_ParamsWrittenByLearnerOnly ==
    RolloutOk
    => \A i \in 1..Len(last.lanes) :
          LET steps == last.lanes[i].steps
              returned(t) == update_learner(steps[t].upd_params,
                                            steps[t].upd_learner).agent_params
          IN /\ steps[1].sel_params = last.lanes[i].start[5]
             /\ \A t \in 1..Len(steps) :
                   /\ steps[t].upd_params = steps[t].sel_params
                   /\ steps[t].carry[5] = returned(t)
                   /\ t > 1 => steps[t].sel_params = returned(t - 1)

C16_Witness ==
    /\ RolloutOk
    /\ ~impl.learner_identity
    /\ \E i \in 1..Len(last.lanes) :
          \E t \in 2..Len(last.lanes[i].steps) :
             /\ last.lanes[i].steps[t].sel_params # last.lanes[i].start[5]
             /\ last.lanes[i].steps[t].sel_params
                   # last.lanes[i].steps[t].sel_actor

\* C17: a call of episode_rollout or batch_rollout, failed or not, leaves
\* the stored agent params, actor state and learner state as they were, and
\* every episode of a successful one starts from these stored values, not
\* from values an earlier rollout computed or used.
C17_RolloutsKeepStoredState ==
    last.op \in {"episode_rollout", "batch_rollout"}
    => /\ Pre = last.pre
       /\ last.err = NoErr
          => \A i \in 1..Len(last.lanes) :
                /\ <<last.lanes[i].start[5]>> = agent_params
                /\ <<last.lanes[i].start[6]>> = actor_state
                /\ <<last.lanes[i].start[7]>> = learner_state

\* C18: whenever agent params, learner state and actor state are all stored
\* (a rollout can start), the stored learner state is
\* init_learner_state(stored agent params) and the stored actor state is
\* init_actor_state(), also after init_collector calls that failed.
C18_StoredStateConsistent ==
    FirstMissing = ""
    => /\ learner_state = <<init_learner_state(agent_params[1])>>
       /\ actor_state = <<init_actor_state>>

====
